---- MODULE Spec2Model ----
(***************************************************************************)
(* Matching estimators of src/testbed.py: MatchingWithReplacement and      *)
(* MatchingWithoutReplacement, one action per step of each function.       *)
(*                                                                         *)
(* Arithmetic is exact.  A real number is a pair <<num, den>> in lowest    *)
(* terms with den > 0.  Arrays are sequences indexed from 1 (the source    *)
(* indexes from 0).  A covariate row is a sequence of k integers; a row    *)
(* whose cells were all overwritten with np.nan is written NanRow.         *)
(*                                                                         *)
(* Library calls are modelled by what they compute:                        *)
(*   np.cov / np.linalg.inv  the k-by-k sample covariance and its inverse; *)
(*                           inv raises LinAlgError on a singular matrix   *)
(*                           and on the 0-dimensional array np.cov returns *)
(*                           for a single column (k = 1);                  *)
(*   argmin / nanargmin      first index of the minimum; argmin returns    *)
(*                           the first nan when there is one;              *)
(*   argsort                 ascending and stable (numpy sorts arrays of   *)
(*                           fewer than 17 elements by insertion);         *)
(*   sm.add_constant         returns its argument unchanged when a column  *)
(*                           is already constant;                          *)
(*   sm.OLS(..).fit()        least squares by pseudo-inverse: the          *)
(*                           minimum-norm solution when rank-deficient;    *)
(*   sm.Logit(..).fit()      with one covariate and no intercept the       *)
(*                           fitted coefficient has the sign of the score  *)
(*                           at zero, sum (2 D_i - 1) x_i, and predict()   *)
(*                           is increasing in coefficient * x; with two    *)
(*                           covariates the fitted direction is an unknown *)
(*                           function of the data, drawn once per dataset. *)
(*                           The fit does not converge on perfectly        *)
(*                           separated data, and its Hessian is singular   *)
(*                           when the covariate columns are linearly       *)
(*                           dependent: depending on the statsmodels       *)
(*                           release the call then raises                  *)
(*                           (PerfectSeparationError, LinAlgError) or      *)
(*                           returns the last iterate; both are outcomes,  *)
(*                           one per dataset.                              *)
(***************************************************************************)
EXTENDS Integers, Sequences, FiniteSets, TLC

VARIABLES
    callerY,      \* the caller's outcome array Y
    callerD,      \* the caller's treatment indicator D
    callerX,      \* the caller's covariate matrix X
    logit,        \* outcome of the logit fit on this dataset (Unfit: not fitted yet)
    args,         \* arguments of the caller's call
    pc,           \* position in the running function
    mahalanobis,  \* parameter mahalanobis of the running function
    bias_correction, \* parameter bias_correction of the running function
    Y, D, X,      \* the running function's local names Y, D, X
    Y_c, Y_t, X_c, X_t, \* the cohort split
    V,            \* np.cov(X, rowvar=0) times N (N - 1); << >> when not computed
    match_index,  \* entries of match_index written so far
    reg,          \* inputs handed to sm.OLS
    ITT,          \* individual effects
    result,       \* what the call returned or raised
    prev          \* function, match_index and result of the caller's previous call

vars == <<callerY, callerD, callerX, logit, args, pc, mahalanobis, bias_correction,
          Y, D, X, Y_c, Y_t, X_c, X_t, V, match_index, reg, ITT, result, prev>>

(***************************************************************************)
(* Bounds of the model                                                     *)
(***************************************************************************)
MaxN == 4        \* most units in a dataset

(***************************************************************************)
(* Exact arithmetic                                                        *)
(***************************************************************************)
Abs(a) == IF a < 0 THEN -a ELSE a

Sign(a) == IF a > 0 THEN 1 ELSE IF a < 0 THEN -1 ELSE 0

RECURSIVE Gcd(_, _)
Gcd(a, b) == IF b = 0 THEN a ELSE Gcd(b, a % b)

\* the real number n/d in lowest terms, d # 0
Rat(n, d) ==
    LET g == Gcd(Abs(n), Abs(d))
        s == IF d < 0 THEN -1 ELSE 1
    IN  <<(s * n) \div g, (s * d) \div g>>

RECURSIVE SumSeq(_)
SumSeq(s) == IF s = << >> THEN 0 ELSE Head(s) + SumSeq(Tail(s))

Dot(u, v) == SumSeq([j \in 1..Len(u) |-> u[j] * v[j]])

RowSub(u, v) == [j \in 1..Len(u) |-> u[j] - v[j]]

(***************************************************************************)
(* numpy indexing                                                          *)
(***************************************************************************)
NanRow == << >>

IsNanRow(r) == Len(r) = 0

\* A[D == v]: the rows whose indicator is v, in order, as a new array
RECURSIVE Mask(_, _, _)
Mask(A, d, v) ==
    IF A = << >> THEN << >>
    ELSE IF Head(d) = v THEN <<Head(A)>> \o Mask(Tail(A), Tail(d), v)
         ELSE Mask(Tail(A), Tail(d), v)

\* A[idx]: the rows at the indices idx, as a new array
Take(A, idx) == [j \in 1..Len(idx) |-> A[idx[j]]]

Reverse(s) == [j \in 1..Len(s) |-> s[Len(s) + 1 - j]]

(***************************************************************************)
(* Reals                                                                   *)
(***************************************************************************)
RatAdd(a, b) == Rat(a[1] * b[2] + b[1] * a[2], a[2] * b[2])

RatSub(a, b) == Rat(a[1] * b[2] - b[1] * a[2], a[2] * b[2])

RatMul(a, b) == Rat(a[1] * b[1], a[2] * b[2])

RECURSIVE RatSum(_)
RatSum(s) == IF s = << >> THEN <<0, 1>> ELSE RatAdd(Head(s), RatSum(Tail(s)))

\* ITT.mean()
Mean(s) == RatMul(RatSum(s), <<1, Len(s)>>)

(***************************************************************************)
(* Distance engine                                                         *)
(***************************************************************************)
NanDist == [nan |-> TRUE, val |-> 0]

\* the differences are summed without being squared
EuclideanUnsquared(Xc, xt) ==
    [c \in 1..Len(Xc) |->
        IF IsNanRow(Xc[c]) THEN NanDist
        ELSE [nan |-> FALSE, val |-> SumSeq(RowSub(Xc[c], xt))]]

\* (dX**2).sum(axis=1) with dX = X_c - X_t[i]; a nan row gives a nan distance
Euclidean(Xc, xt) ==
    [c \in 1..Len(Xc) |->
        IF IsNanRow(Xc[c]) THEN NanDist
        ELSE LET dX == RowSub(Xc[c], xt) IN [nan |-> FALSE, val |-> Dot(dX, dX)]]

Column(A, j) == [r \in 1..Len(A) |-> A[r][j]]

\* np.cov(X, rowvar=0) times N (N - 1), which keeps it in the integers:
\* entry (a, b) is N sum x_a x_b - (sum x_a) (sum x_b)
CovScaled(A) ==
    LET n == Len(A)
        k == Len(A[1])
    IN  [a \in 1..k |-> [b \in 1..k |->
            n * Dot(Column(A, a), Column(A, b)) - SumSeq(Column(A, a)) * SumSeq(Column(A, b))]]

\* a pseudo-inverse in place of the inverse: a singular V does not raise
InvRaisesOnlyScalar(S) == Len(S) = 1

\* np.linalg.inv(V) raises LinAlgError: V is 0-dimensional (one covariate) or singular
InvRaises(S) ==
    \/ Len(S) = 1
    \/ S[1][1] * S[2][2] - S[1][2] * S[2][1] = 0

\* (dX.dot(inv(V)) * dX).sum(axis=1) for two covariates, each entry over the
\* common positive denominator det(S) / (N (N - 1)): inv(V) is
\* N (N - 1) adj(S) / det(S), and adj(S) = [[S22, -S12], [-S21, S11]]
Mahalanobis(Xc, xt, S) ==
    [c \in 1..Len(Xc) |->
        IF IsNanRow(Xc[c]) THEN NanDist
        ELSE LET dX == RowSub(Xc[c], xt)
             IN  [nan |-> FALSE,
                  val |-> S[2][2] * dX[1] * dX[1] - S[1][2] * dX[1] * dX[2]
                          - S[2][1] * dX[2] * dX[1] + S[1][1] * dX[2] * dX[2]]]

\* ndarray.argmin(): the first nan if there is one, else the first minimum
ArgMin(dist) ==
    IF \E c \in 1..Len(dist) : dist[c].nan
    THEN CHOOSE c \in 1..Len(dist) : dist[c].nan /\ \A e \in 1..(c - 1) : ~dist[e].nan
    ELSE CHOOSE c \in 1..Len(dist) :
            /\ \A e \in 1..Len(dist) : dist[c].val <= dist[e].val
            /\ \A e \in 1..(c - 1) : dist[e].val > dist[c].val

AllNan(dist) == \A c \in 1..Len(dist) : dist[c].nan

\* argmin in place of nanargmin: a nan wins
NanArgMinPlain(dist) == ArgMin(dist)

\* np.nanargmin: the first minimum among the entries that are not nan
NanArgMin(dist) ==
    CHOOSE c \in 1..Len(dist) :
        /\ ~dist[c].nan
        /\ \A e \in 1..Len(dist) : dist[e].nan \/ dist[c].val <= dist[e].val
        /\ \A e \in 1..(c - 1) : dist[e].nan \/ dist[e].val > dist[c].val

(***************************************************************************)
(* Propensity ranker                                                       *)
(***************************************************************************)
\* directions the two-covariate logit fit may return
LogitDirections == {<<1, 0>>, <<0, 1>>, <<-1, 1>>}

\* coefficients of the directions tried as separating
Slopes == -3..3

Unfit == [state |-> "unfit", coef |-> << >>, error |-> ""]

Fitted(coef) == [state |-> "fitted", coef |-> coef, error |-> ""]

FitFailed(e) == [state |-> "failed", coef |-> << >>, error |-> e]

\* the covariate columns are linearly dependent: X'X is singular
Collinear(A) ==
    IF Len(A[1]) = 1
    THEN \A r \in 1..Len(A) : A[r][1] = 0
    ELSE \A r, q \in 1..Len(A) : A[r][1] * A[q][2] = A[r][2] * A[q][1]

\* a direction gives every treated unit a positive and every control unit a
\* negative index: the likelihood has no maximum
Separable(d, A) ==
    \E b \in [1..Len(A[1]) -> Slopes] :
        \A r \in 1..Len(A) : (2 * d[r] - 1) * Dot(b, A[r]) > 0

\* the coefficient directions a fit that returns can return
LogitCoefficients(d, A) ==
    IF Len(A[1]) = 1
    THEN {<<Sign(SumSeq([r \in 1..Len(A) |-> (2 * d[r] - 1) * A[r][1]]))>>}
    ELSE LogitDirections

\* sm.Logit(D, X).fit(): the outcomes the fit can have
LogitFit(d, A) ==
    {Fitted(coef) : coef \in LogitCoefficients(d, A)}
    \cup (IF Collinear(A) THEN {FitFailed("LinAlgError")}
          ELSE IF Separable(d, A) THEN {FitFailed("PerfectSeparationError")}
          ELSE {})

\* .predict(), up to the increasing map z |-> 1 / (1 + exp(-z))
Predict(coef, A) == [r \in 1..Len(A) |-> Dot(coef, A[r])]

\* np.argsort(pscore): ascending, equal scores in index order
ArgSort(pscore) ==
    LET n == Len(pscore)
        Before(a, b) == pscore[a] < pscore[b] \/ (pscore[a] = pscore[b] /\ a < b)
        Rank(a) == Cardinality({b \in 1..n : Before(b, a)}) + 1
    IN  [j \in 1..n |-> CHOOSE a \in 1..n : Rank(a) = j]

\* the sort without its reversal: ascending scores
OrderAscending(pscore) == ArgSort(pscore)

\* np.argsort(pscore)[::-1]
Order(pscore) == Reverse(ArgSort(pscore))

(***************************************************************************)
(* Bias corrector                                                          *)
(***************************************************************************)
HasNanRow(A) == \E r \in 1..Len(A) : IsNanRow(A[r])

\* sm.add_constant(A): A itself when one of its columns is already constant,
\* else A with a leading column of ones
AddConstant(A) ==
    IF \E j \in 1..Len(A[1]) : \A r \in 1..Len(A) : A[r][j] = A[1][j]
    THEN A
    ELSE [r \in 1..Len(A) |-> <<1>> \o A[r]]

Gram(A) == [a \in 1..Len(A[1]) |-> [b \in 1..Len(A[1]) |-> Dot(Column(A, a), Column(A, b))]]

Det(M) ==
    IF Len(M) = 1 THEN M[1][1]
    ELSE IF Len(M) = 2 THEN M[1][1] * M[2][2] - M[1][2] * M[2][1]
    ELSE M[1][1] * (M[2][2] * M[3][3] - M[2][3] * M[3][2])
         - M[1][2] * (M[2][1] * M[3][3] - M[2][3] * M[3][1])
         + M[1][3] * (M[2][1] * M[3][2] - M[2][2] * M[3][1])

Cross(u, v) ==
    <<u[2] * v[3] - u[3] * v[2], u[3] * v[1] - u[1] * v[3], u[1] * v[2] - u[2] * v[1]>>

\* a vector spanning the null space of a design matrix that is one short of
\* full column rank
NullVector(A) ==
    IF Len(A[1]) = 1 THEN <<1>>
    ELSE IF Len(A[1]) = 2 THEN <<-A[1][2], A[1][1]>>
    ELSE LET r == CHOOSE r \in 1..Len(A) :
                    /\ Cross(A[1], A[r]) # <<0, 0, 0>>
                    /\ \A q \in 1..(r - 1) : Cross(A[1], A[q]) = <<0, 0, 0>>
         IN  Cross(A[1], A[r])

\* sm.OLS(y, A).fit().params: pinv(A) y, the least-squares solution of
\* smallest norm.  It solves (A'A + n n') b = A'y, where n spans the null
\* space of A when A is rank-deficient and n = 0 otherwise.
OLSFit(A, y) ==
    LET p == Len(A[1])
        G == Gram(A)
        n == IF Det(G) = 0 THEN NullVector(A) ELSE [j \in 1..p |-> 0]
        M == [a \in 1..p |-> [b \in 1..p |-> G[a][b] + n[a] * n[b]]]
        v == [a \in 1..p |-> Dot(Column(A, a), y)]
        Replaced(j) == [a \in 1..p |-> [b \in 1..p |-> IF b = j THEN v[a] ELSE M[a][b]]]
    IN  [j \in 1..p |-> Rat(Det(Replaced(j)), Det(M))]

\* np.dot(gap, slopes) for one row of the gap matrix
DotReal(u, slopes) == RatSum([j \in 1..Len(u) |-> RatMul(<<u[j], 1>>, slopes[j])])

\* the difference taken the wrong way round
RawDifferenceReversed(Yt, Ycm) == [r \in 1..Len(Yt) |-> <<Ycm[r] - Yt[r], 1>>]

\* Y_t - Y_c[match_index]
RawDifference(Yt, Ycm) == [r \in 1..Len(Yt) |-> <<Yt[r] - Ycm[r], 1>>]

\* the bias-corrected effects: reg = sm.OLS(Ycm, sm.add_constant(Xcm)).fit();
\* ITT = Y_t - Ycm - np.dot(X_t - Xcm, reg.params[1:]).  The fit raises on
\* nan regressors; np.dot raises when reg.params[1:] is not one slope per
\* covariate.
Corrected(Yt, Ycm, Xt, Xcm) ==
    IF HasNanRow(Xcm) THEN [raised |-> "LinAlgError", ITT |-> << >>]
    ELSE LET slopes == Tail(OLSFit(AddConstant(Xcm), Ycm))
         IN  IF Len(slopes) # Len(Xt[1]) THEN [raised |-> "ValueError", ITT |-> << >>]
             ELSE [raised |-> "",
                   ITT |-> [r \in 1..Len(Yt) |->
                              RatSub(RawDifference(Yt, Ycm)[r],
                                     DotReal(RowSub(Xt[r], Xcm[r]), slopes))]]

(***************************************************************************)
(* Inputs                                                                  *)
(***************************************************************************)
\* covariate rows of the datasets: one covariate, or two
Rows(k) == IF k = 1 THEN {<<1>>, <<2>>, <<3>>} ELSE {<<1, 1>>, <<2, 1>>, <<1, 2>>}

Outcomes(n) == {[r \in 1..n |-> 10 * r]}

\* rows in dictionary order
RowLeq(u, v) == \/ u[1] < v[1]
                \/ u[1] = v[1] /\ (Len(u) = 1 \/ u[2] <= v[2])

\* datasets of 2..MaxN units with both cohorts present, units listed in
\* non-decreasing covariate order
Generated ==
    UNION {
        {[Y |-> y, D |-> d, X |-> x] :
            y \in Outcomes(n),
            d \in {e \in [1..n -> {0, 1}] : 0 < SumSeq(e) /\ SumSeq(e) < n},
            x \in {z \in [1..n -> Rows(k)] : \A r \in 1..(n - 1) : RowLeq(z[r], z[r + 1])}}
        : n \in 2..MaxN, k \in {1, 2}}

\* N=4, k=1, X_c=[1,2], X_t=[3,4], Y_c=[10,20]
Scenario ==
    {[Y |-> <<10, 20>> \o yt, D |-> <<0, 0, 1, 1>>, X |-> <<<<1>>, <<2>>, <<3>>, <<4>>>>] :
        yt \in {<<30, 40>>, <<3, 4>>, <<4, 3>>}}

Datasets == Generated \cup Scenario

NoResult == [kind |-> "none", ATT |-> <<0, 1>>, error |-> ""]

Returned(att) == [kind |-> "value", ATT |-> att, error |-> ""]

Raised(e) == [kind |-> "raised", ATT |-> <<0, 1>>, error |-> e]

Init ==
    /\ \E data \in Datasets :
        /\ callerY = data.Y
        /\ callerD = data.D
        /\ callerX = data.X
    /\ logit = Unfit
    /\ args = [fn |-> "none", mahalanobis |-> FALSE, bias_correction |-> FALSE]
    /\ pc = "idle"
    /\ mahalanobis = FALSE
    /\ bias_correction = FALSE
    /\ Y = << >> /\ D = << >> /\ X = << >>
    /\ Y_c = << >> /\ Y_t = << >> /\ X_c = << >> /\ X_t = << >>
    /\ V = << >>
    /\ match_index = << >>
    /\ reg = [Y |-> << >>, X |-> << >>]
    /\ ITT = << >>
    /\ result = NoResult
    /\ prev = [fn |-> "none", match_index |-> << >>, result |-> NoResult]

(***************************************************************************)
(* MatchingWithReplacement                                                 *)
(***************************************************************************)
\* lines 106-113: the split, match_index = zeros(N_t), V when mahalanobis
EnterWith(y, d, x, m, b) ==
    /\ mahalanobis' = m
    /\ bias_correction' = b
    /\ Y' = y /\ D' = d /\ X' = x
    /\ Y_c' = Mask(y, d, 0) /\ Y_t' = Mask(y, d, 1)
    /\ X_c' = Mask(x, d, 0) /\ X_t' = Mask(x, d, 1)
    /\ V' = IF m THEN CovScaled(x) ELSE << >>
    /\ match_index' = << >>
    /\ reg' = [Y |-> << >>, X |-> << >>]
    /\ ITT' = << >>
    /\ result' = NoResult
    /\ pc' = "with_loop"

\* lines 133-166: the parameters of MatchingWithoutReplacement are bound
EnterWithout(y, d, x, m, b) ==
    /\ mahalanobis' = m
    /\ bias_correction' = b
    /\ Y' = y /\ D' = d /\ X' = x
    /\ Y_c' = << >> /\ Y_t' = << >> /\ X_c' = << >> /\ X_t' = << >>
    /\ V' = << >>
    /\ match_index' = << >>
    /\ reg' = [Y |-> << >>, X |-> << >>]
    /\ ITT' = << >>
    /\ result' = NoResult
    /\ pc' = "without_entry"

\* the caller calls MatchingWithReplacement(Y, D, X, m, b)
CallWithReplacement(m, b) ==
    /\ pc = "idle"
    /\ args' = [fn |-> "MatchingWithReplacement", mahalanobis |-> m, bias_correction |-> b]
    /\ EnterWith(callerY, callerD, callerX, m, b)
    /\ UNCHANGED <<callerY, callerD, callerX, logit, prev>>

\* the caller calls MatchingWithoutReplacement(Y, D, X, m, b)
CallWithoutReplacement(m, b) ==
    /\ pc = "idle"
    /\ args' = [fn |-> "MatchingWithoutReplacement", mahalanobis |-> m, bias_correction |-> b]
    /\ EnterWithout(callerY, callerD, callerX, m, b)
    /\ UNCHANGED <<callerY, callerD, callerX, logit, prev>>

\* the caller calls again on the same arrays, with the same arguments
CallAgain(fn) ==
    /\ pc = "returned"
    /\ prev' = [fn |-> args.fn, match_index |-> match_index, result |-> result]
    /\ args' = [args EXCEPT !.fn = fn]
    /\ IF fn = "MatchingWithReplacement"
       THEN EnterWith(callerY, callerD, callerX, args.mahalanobis, args.bias_correction)
       ELSE EnterWithout(callerY, callerD, callerX, args.mahalanobis, args.bias_correction)
    /\ UNCHANGED <<callerY, callerD, callerX, logit>>

\* lines 114-117 and 119-121: one iteration of the loop over treated units
MatchWith ==
    /\ pc = "with_loop"
    /\ Len(match_index) < Len(Y_t)
    /\ LET i == Len(match_index) + 1
       IN  IF mahalanobis /\ InvRaises(V)
           THEN /\ result' = Raised("LinAlgError")
                /\ pc' = "returned"
                /\ UNCHANGED match_index
           ELSE /\ match_index' = Append(match_index,
                                    IF mahalanobis THEN ArgMin(Mahalanobis(X_c, X_t[i], V))
                                    ELSE ArgMin(Euclidean(X_c, X_t[i])))
                /\ UNCHANGED <<result, pc>>
    /\ UNCHANGED <<callerY, callerD, callerX, logit, args, mahalanobis, bias_correction,
                   Y, D, X, Y_c, Y_t, X_c, X_t, V, reg, ITT, prev>>

\* lines 123-130: the effects and their mean
FinishWith ==
    /\ pc = "with_loop"
    /\ Len(match_index) = Len(Y_t)
    /\ IF bias_correction
       THEN LET fit == Corrected(Y_t, Take(Y_c, match_index), X_t, Take(X_c, match_index))
            IN  /\ reg' = [Y |-> Take(Y_c, match_index), X |-> Take(X_c, match_index)]
                /\ ITT' = fit.ITT
                /\ result' = IF fit.raised # "" THEN Raised(fit.raised)
                             ELSE Returned(Mean(fit.ITT))
       ELSE /\ ITT' = RawDifference(Y_t, Take(Y_c, match_index))
            /\ result' = Returned(Mean(ITT'))
            /\ UNCHANGED reg
    /\ pc' = "returned"
    /\ UNCHANGED <<callerY, callerD, callerX, logit, args, mahalanobis, bias_correction,
                   Y, D, X, Y_c, Y_t, X_c, X_t, V, match_index, prev>>

(***************************************************************************)
(* MatchingWithoutReplacement                                              *)
(***************************************************************************)
\* line 170: MatchingWithReplacement(Y, D, X, mahalanobis) -- the fifth
\* parameter takes its default, bias_correction=True (line 81)
FallbackArguments(m, b) == [mahalanobis |-> m, bias_correction |-> TRUE]

\* lines 168-170: more treated than control units
Fallback ==
    /\ pc = "without_entry"
    /\ 2 * SumSeq(D) > Len(D)
    /\ LET a == FallbackArguments(mahalanobis, bias_correction)
       IN  EnterWith(Y, D, X, a.mahalanobis, a.bias_correction)
    /\ UNCHANGED <<callerY, callerD, callerX, logit, args, prev>>

\* the sort is done in place, in the caller's array
CallerSortedInPlace(callerA, sortedA) == sortedA

\* line 174 binds the local names Y, D, X to new arrays (indexing with an
\* index array copies): the caller's array is what it was
CallerAfterSort(callerA, sortedA) == callerA

\* lines 172-183: propensity scores, the sort of all units, the split
SortByPropensity ==
    /\ pc = "without_entry"
    /\ ~(2 * SumSeq(D) > Len(D))
    /\ \E fit \in (IF logit = Unfit THEN LogitFit(D, X) ELSE {logit}) :
        /\ logit' = fit
        /\ IF fit.state = "failed"
           THEN /\ result' = Raised(fit.error)
                /\ pc' = "returned"
                /\ UNCHANGED <<callerY, callerD, callerX, Y, D, X, Y_c, Y_t, X_c, X_t,
                               V, match_index>>
           ELSE LET order == Order(Predict(fit.coef, X))
                IN  /\ Y' = Take(Y, order)
                    /\ D' = Take(D, order)
                    /\ X' = Take(X, order)
                    /\ callerY' = CallerAfterSort(callerY, Y')
                    /\ callerD' = CallerAfterSort(callerD, D')
                    /\ callerX' = CallerAfterSort(callerX, X')
                    /\ Y_c' = Mask(Y', D', 0) /\ Y_t' = Mask(Y', D', 1)
                    /\ X_c' = Mask(X', D', 0) /\ X_t' = Mask(X', D', 1)
                    /\ V' = IF mahalanobis THEN CovScaled(X') ELSE << >>
                    /\ match_index' = << >>
                    /\ pc' = "without_loop"
                    /\ UNCHANGED result
    /\ UNCHANGED <<args, mahalanobis, bias_correction, reg, ITT, prev>>

\* the matched control is left in the pool
RemoveNothing(Xc, c) == Xc

\* lines 188 and 195: X_c[match_index[i]] = np.nan
Remove(Xc, c) == [Xc EXCEPT ![c] = NanRow]

\* lines 184-195: one iteration of the greedy loop
MatchWithout ==
    /\ pc = "without_loop"
    /\ Len(match_index) < Len(Y_t)
    /\ LET i == Len(match_index) + 1
           dist == IF mahalanobis THEN Mahalanobis(X_c, X_t[i], V)
                   ELSE Euclidean(X_c, X_t[i])
       IN  IF mahalanobis /\ InvRaises(V)
           THEN /\ result' = Raised("LinAlgError")
                /\ pc' = "returned"
                /\ UNCHANGED <<match_index, X_c>>
           ELSE IF AllNan(dist)
           THEN /\ result' = Raised("ValueError")
                /\ pc' = "returned"
                /\ UNCHANGED <<match_index, X_c>>
           ELSE /\ match_index' = Append(match_index, NanArgMin(dist))
                /\ X_c' = Remove(X_c, NanArgMin(dist))
                /\ UNCHANGED <<result, pc>>
    /\ UNCHANGED <<callerY, callerD, callerX, logit, args, mahalanobis, bias_correction,
                   Y, D, X, Y_c, Y_t, X_t, V, reg, ITT, prev>>

\* X_c is not redefined: it keeps the nan rows
RederiveNothing(Xc, x, d) == Xc

\* line 198: X_c = X[D==0]
Rederive(Xc, x, d) == Mask(x, d, 0)

\* lines 197-205: the effects and their mean
FinishWithout ==
    /\ pc = "without_loop"
    /\ Len(match_index) = Len(Y_t)
    /\ IF bias_correction
       THEN /\ X_c' = Rederive(X_c, X, D)
            /\ LET fit == Corrected(Y_t, Take(Y_c, match_index), X_t, Take(X_c', match_index))
               IN  /\ reg' = [Y |-> Take(Y_c, match_index), X |-> Take(X_c', match_index)]
                   /\ ITT' = fit.ITT
                   /\ result' = IF fit.raised # "" THEN Raised(fit.raised)
                                ELSE Returned(Mean(fit.ITT))
       ELSE /\ ITT' = RawDifference(Y_t, Take(Y_c, match_index))
            /\ result' = Returned(Mean(ITT'))
            /\ UNCHANGED <<reg, X_c>>
    /\ pc' = "returned"
    /\ UNCHANGED <<callerY, callerD, callerX, logit, args, mahalanobis, bias_correction,
                   Y, D, X, Y_c, Y_t, X_t, V, match_index, prev>>

Functions == {"MatchingWithReplacement", "MatchingWithoutReplacement"}

Next ==
    \/ \E m \in BOOLEAN, b \in BOOLEAN : CallWithReplacement(m, b)
    \/ \E m \in BOOLEAN, b \in BOOLEAN : CallWithoutReplacement(m, b)
    \/ \E fn \in Functions : CallAgain(fn)
    \/ MatchWith
    \/ FinishWith
    \/ Fallback
    \/ SortByPropensity
    \/ MatchWithout
    \/ FinishWithout

Spec == Init /\ [][Next]_vars

(***************************************************************************)
(* Properties                                                              *)
(***************************************************************************)
\* the test of line 168 on the caller's data
NotEnoughControls == 2 * SumSeq(callerD) > Len(callerD)

\* the greedy loop of MatchingWithoutReplacement is running or has run
GreedyRun ==
    /\ args.fn = "MatchingWithoutReplacement"
    /\ ~NotEnoughControls
    /\ pc \in {"without_loop", "returned"}
    /\ logit.state = "fitted"

\* the control cohort of the sorted data, before any removal
SortedXc == Mask(X, D, 0)

SortedYc == Mask(Y, D, 0)

\* the controls consumed before treated unit i is processed
ConsumedBefore(i) == {match_index[j] : j \in 1..(i - 1)}

\* C1: in a run of MatchingWithoutReplacement with N_t <= N_c, under either
\* metric and with bias correction on or off, no two treated units are
\* assigned the same control: a consumed control is never selected again.
C1_Injective ==
    GreedyRun =>
        \A i \in 1..Len(match_index) : match_index[i] \notin ConsumedBefore(i)

C1_Witness ==
    /\ GreedyRun
    /\ pc = "returned"
    /\ result.kind = "value"
    /\ Len(match_index) >= 2
    /\ \E i \in 1..Len(match_index) : match_index[i] # NanArgMin(
            IF mahalanobis THEN Mahalanobis(SortedXc, X_t[i], V)
            ELSE Euclidean(SortedXc, X_t[i]))

\* the distances from treated unit i to the controls of the sorted cohort
DistanceFrom(i) ==
    IF mahalanobis THEN Mahalanobis(SortedXc, X_t[i], V) ELSE Euclidean(SortedXc, X_t[i])

\* unit q of a dataset: its outcome, indicator and covariates
Unit(y, d, x, q) == <<y[q], d[q], x[q]>>

\* C8: in a run of MatchingWithoutReplacement with N_t <= N_c the units are
\* sorted together by descending propensity score (the sorted arrays hold the
\* caller's units, each as often), the cohorts are re-derived from the sorted
\* data, and so a treated unit matched before another has a score at least
\* as high.
C8_DescendingPropensity ==
    GreedyRun =>
        LET all == Predict(logit.coef, X)
            pscore == Predict(logit.coef, X_t)
        IN  /\ \A r \in 1..(Len(X) - 1) : all[r] >= all[r + 1]
            /\ Len(X) = Len(callerX)
            /\ \A r \in 1..Len(X) :
                    Cardinality({q \in 1..Len(X) : Unit(Y, D, X, q) = Unit(Y, D, X, r)})
                    = Cardinality({q \in 1..Len(X) :
                                    Unit(callerY, callerD, callerX, q) = Unit(Y, D, X, r)})
            /\ Y_t = Mask(Y, D, 1) /\ X_t = Mask(X, D, 1) /\ Y_c = SortedYc
            /\ \A a, b \in 1..Len(match_index) : a < b => pscore[a] >= pscore[b]

C8_Witness ==
    /\ GreedyRun
    /\ pc = "returned"
    /\ Len(match_index) >= 2
    /\ Predict(logit.coef, X_t)[1] > Predict(logit.coef, X_t)[2]
    /\ X # callerX

\* C9: at every step of the greedy loop some control is unconsumed, and the
\* control given to the treated unit is unconsumed and nearest to it among
\* the controls unconsumed at that step, the lowest index among equals.
C9_NearestRemaining ==
    GreedyRun =>
        /\ Len(match_index) < Len(Y_t) => \E c \in 1..Len(X_c) : ~IsNanRow(X_c[c])
        /\ \A c \in 1..Len(X_c) : IsNanRow(X_c[c]) =>
                c \in ConsumedBefore(Len(match_index) + 1)
        /\ \A i \in 1..Len(match_index) :
             LET m == match_index[i]
                 dist == DistanceFrom(i)
             IN  /\ m \in 1..Len(SortedXc)
                 /\ m \notin ConsumedBefore(i)
                 /\ \A c \in (1..Len(SortedXc)) \ ConsumedBefore(i) :
                        /\ dist[m].val <= dist[c].val
                        /\ dist[c].val = dist[m].val => m <= c

C9_Witness ==
    /\ GreedyRun
    /\ mahalanobis
    /\ pc = "without_loop"
    /\ Len(match_index) = 2
    /\ \E c \in ConsumedBefore(2) : DistanceFrom(2)[c].val < DistanceFrom(2)[match_index[2]].val

\* C10: marking a control as consumed leaves every other control at its index
\* with its row, and with bias correction the regression and the
\* covariate-gap term use, for each treated unit, the row and outcome the
\* control at the recorded index had before any removal: no nan reaches the
\* regression inputs or the effects.
C10_OriginalRows ==
    GreedyRun =>
        /\ Len(X_c) = Len(SortedXc)
        /\ \A c \in 1..Len(X_c) : IsNanRow(X_c[c]) \/ X_c[c] = SortedXc[c]
        /\ pc = "returned" /\ bias_correction /\ Len(match_index) = Len(Y_t) =>
             LET fit == Corrected(Y_t, Take(SortedYc, match_index),
                                  X_t, Take(SortedXc, match_index))
             IN  /\ reg.X = Take(SortedXc, match_index)
                 /\ reg.Y = Take(SortedYc, match_index)
                 /\ ~HasNanRow(reg.X)
                 /\ ITT = fit.ITT
                 /\ result = IF fit.raised # "" THEN Raised(fit.raised)
                             ELSE Returned(Mean(fit.ITT))

C10_Witness ==
    /\ GreedyRun
    /\ pc = "returned"
    /\ bias_correction
    /\ result.kind = "value"
    /\ Len(match_index) >= 2
    /\ match_index[1] > match_index[2]
    /\ \E r \in 1..Len(ITT) : ITT[r] # RawDifference(Y_t, reg.Y)[r]

\* C6: a call of MatchingWithoutReplacement leaves the caller's Y, D and X
\* as they were (no row moved, none overwritten with nan), and the call
\* repeated on them gives the same assignment and the same result.
C6_CallerArraysUntouched ==
    /\ [][callerY' = callerY /\ callerD' = callerD /\ callerX' = callerX]_vars
    /\ [](pc = "returned" /\ args.fn = "MatchingWithoutReplacement"
              /\ prev.fn = "MatchingWithoutReplacement"
            => match_index = prev.match_index /\ result = prev.result)

C6_Witness ==
    /\ GreedyRun
    /\ pc = "returned"
    /\ prev.fn = "MatchingWithoutReplacement"
    /\ prev.result.kind = "value"
    /\ Len(match_index) >= 2
    /\ X # callerX
    /\ HasNanRow(X_c)

\* C5 as stated: with one control and one treated unit, Euclidean metric and
\* no bias correction, MatchingWithReplacement and MatchingWithoutReplacement
\* return the same ATT, the treated outcome minus the control outcome.
C5_SinglePair ==
    Len(callerY) = 2 /\ pc = "returned" /\ ~args.mahalanobis /\ ~args.bias_correction =>
        LET t == CHOOSE r \in 1..2 : callerD[r] = 1
            c == CHOOSE r \in 1..2 : callerD[r] = 0
        IN  /\ result = Returned(<<callerY[t] - callerY[c], 1>>)
            /\ prev.fn # "none" => prev.result = result

\* C5 amended: with one control and one treated unit, Euclidean metric and
\* no bias correction, MatchingWithReplacement returns the treated outcome
\* minus the control outcome, and MatchingWithoutReplacement returns the
\* same ATT when its logit fit returns and raises the fit's error when it
\* does not.
C5_SinglePairWhenFitted ==
    Len(callerY) = 2 /\ pc = "returned" /\ ~args.mahalanobis /\ ~args.bias_correction =>
        LET t == CHOOSE r \in 1..2 : callerD[r] = 1
            c == CHOOSE r \in 1..2 : callerD[r] = 0
        IN  /\ IF args.fn = "MatchingWithoutReplacement" /\ logit.state = "failed"
               THEN result = Raised(logit.error)
               ELSE result = Returned(<<callerY[t] - callerY[c], 1>>)
            /\ prev.result.kind = "value" /\ result.kind = "value" => prev.result = result

C5_Witness ==
    /\ Len(callerY) = 2
    /\ Len(callerX[1]) = 1
    /\ pc = "returned"
    /\ ~args.mahalanobis /\ ~args.bias_correction
    /\ args.fn = "MatchingWithoutReplacement"
    /\ prev.fn = "MatchingWithReplacement"
    /\ result.kind = "value"
    /\ X # callerX

\* N=4, k=1, X_c=[1,2], X_t=[3,4], Y_c=[10,20]
ScenarioData ==
    /\ callerX = <<<<1>>, <<2>>, <<3>>, <<4>>>>
    /\ callerD = <<0, 0, 1, 1>>
    /\ callerY[1] = 10 /\ callerY[2] = 20

\* C3: in the scenario, under the Euclidean metric, MatchingWithReplacement
\* gives both treated units the control with X=2 (Y=20);
\* MatchingWithoutReplacement processes the treated unit with X=4 first and
\* gives it the control with X=2 (Y=20), then gives the treated unit with X=3
\* the control with X=1 (Y=10); the raw differences are treated outcome minus
\* matched control outcome.
C3_Scenario ==
    ScenarioData /\ pc = "returned" /\ ~args.mahalanobis =>
        IF args.fn = "MatchingWithReplacement"
        THEN /\ Take(SortedXc, match_index) = <<<<2>>, <<2>>>>
             /\ Take(SortedYc, match_index) = <<20, 20>>
             /\ X_t = <<<<3>>, <<4>>>>
             /\ ~args.bias_correction =>
                    ITT = <<<<callerY[3] - 20, 1>>, <<callerY[4] - 20, 1>>>>
        ELSE /\ X_t = <<<<4>>, <<3>>>>
             /\ Y_t = <<callerY[4], callerY[3]>>
             /\ Take(SortedXc, match_index) = <<<<2>>, <<1>>>>
             /\ Take(SortedYc, match_index) = <<20, 10>>
             /\ match_index[1] # match_index[2]
             /\ ~args.bias_correction =>
                    ITT = <<<<callerY[4] - 20, 1>>, <<callerY[3] - 10, 1>>>>

C3_Witness ==
    /\ ScenarioData
    /\ callerY = <<10, 20, 3, 4>>
    /\ pc = "returned"
    /\ ~args.mahalanobis /\ ~args.bias_correction
    /\ args.fn = "MatchingWithoutReplacement"
    /\ prev.fn = "MatchingWithReplacement"
    /\ prev.match_index = <<2, 2>>
    /\ ITT = <<<<-16, 1>>, <<-7, 1>>>>

\* C2: with more treated than control units, MatchingWithoutReplacement
\* returns what MatchingWithReplacement returns when called directly with
\* the same data, metric and bias-correction arguments.
C2_FallbackEquivalence ==
    /\ pc = "returned"
    /\ args.fn = "MatchingWithoutReplacement"
    /\ NotEnoughControls
    /\ prev.fn = "MatchingWithReplacement"
    => result = prev.result

\* the matched controls' covariates with the intercept column
WithIntercept(A) == [r \in 1..Len(A) |-> <<1>> \o A[r]]

\* C7: with bias correction, when the design matrix of the matched controls'
\* covariates with intercept is rank-deficient, the estimator raises instead
\* of returning an ATT computed from the fitted coefficients.
C7_RankDeficientRaises ==
    /\ pc = "returned"
    /\ bias_correction
    /\ reg.X # << >>
    /\ Det(Gram(WithIntercept(reg.X))) = 0
    => result.kind = "raised"

\* N_c == N_t and every covariate row the same
Degenerate ==
    /\ Len(callerD) = 2 * SumSeq(callerD)
    /\ \A r \in 1..Len(callerX) : callerX[r] = callerX[1]

ExactMatches ==
    /\ Len(match_index) = Len(Y_t)
    /\ \A i \in 1..Len(match_index) : SortedXc[match_index[i]] = X_t[i]

\* C4 as stated: with N_c == N_t and identical covariate rows, either metric
\* and either mode match every treated unit exactly and yield treated
\* outcome minus matched control outcome, the correction term being zero.
C4_DegenerateAnyMetric ==
    Degenerate /\ pc = "returned" =>
        /\ result.kind = "value"
        /\ ExactMatches
        /\ ITT = RawDifference(Y_t, Take(SortedYc, match_index))

\* C4 amended: with N_c == N_t and identical covariate rows, Euclidean
\* matching without bias correction matches every treated unit to a control
\* with the same covariates and returns the mean of treated outcome minus
\* matched control outcome, in MatchingWithReplacement always and in
\* MatchingWithoutReplacement when its logit fit returns; Mahalanobis
\* matching raises on the singular covariance matrix; a logit fit that does
\* not return raises its own error first.
C4_DegenerateEuclidean ==
    Degenerate /\ pc = "returned" =>
        IF args.fn = "MatchingWithoutReplacement" /\ logit.state = "failed"
        THEN result = Raised(logit.error)
        ELSE IF args.mahalanobis
        THEN result = Raised("LinAlgError")
        ELSE /\ ExactMatches
             /\ ~args.bias_correction =>
                    /\ ITT = RawDifference(Y_t, Take(SortedYc, match_index))
                    /\ result = Returned(Mean(ITT))

C4_Witness ==
    /\ Degenerate
    /\ pc = "returned"
    /\ ~args.mahalanobis /\ ~args.bias_correction
    /\ args.fn = "MatchingWithoutReplacement"
    /\ Len(match_index) >= 2
    /\ result.kind = "value"
    /\ Len(callerX[1]) = 1

====
